---- MODULE Spec2Model ----
(***************************************************************************)
(* Model of the WAGO 750-881 heating data logger (gerontec/wago750-881).   *)
(*                                                                         *)
(* Spec       invocations of heizung3.py run_sync(), one after another:    *)
(*            the override write-back, the DO5 output test, the optional   *)
(*            block reads, the data-ready handshake, the decode pass and   *)
(*            the INSERT into the store, against a controller whose output *)
(*            byte and status word change on their own.  One action per    *)
(*            transport call; a call's outcome (ok / isError() / raised)   *)
(*            is an input of the action.  Within one invocation the        *)
(*            transport faults are confined to one section of run_sync     *)
(*            (`scope`); every section is covered by some behaviour.       *)
(* SpecCodec  the pure encode/decode helpers of all script variants,       *)
(*            applied to inputs drawn from bounded sets.                   *)
(*                                                                         *)
(* 16-bit words are naturals 0..65535.  TLC computes in 32-bit integers,   *)
(* so a value such as (high << 16) | low is computed without ever leaving  *)
(* that range; the result is the one Python's unbounded integers give.     *)
(***************************************************************************)
EXTENDS Integers, Sequences, FiniteSets, TLC

VARIABLES
    \* ---- controller (register bank) ----
    sp,            \* setpoint registers: sp[a] = <<word at ADDR_a, word at ADDR_a + 1>>
    qb0,           \* output byte %QB0 (holding register 512 / coils 512..)
    \* ---- configuration ----
    cfg,           \* CONFIG.*_OVERRIDE, the desired override per actuator
    \* ---- run_sync position and locals ----
    pc,            \* position inside run_sync
    scope,         \* the section of run_sync whose transport calls may fail
    mqtt_temp,     \* result of mqtt_reader.read(): {} is None, {v} a value
    client_open,   \* the ModbusTcpClient is connected and not yet closed
    ovr_read_ok,   \* the setpoint read did not return isError()
    current,       \* current_ww / current_hk / current_br
    test_coils,    \* local coil array of the DO5 test / reset, as a byte
    reason,        \* (reason_ww, reason_hk, reason_br)
    pump_runtime,  \* {} is None, {r} a PumpRuntime
    output_byte,   \* the low byte of %QB0 as read_physical_outputs read it, {} if it did not
    coil,          \* (coil_ww, coil_hk, coil_br) from read_physical_outputs
    di8_data,      \* {} is None, {w} a decoded DI word
    hs_reads,      \* what each read of wait_for_data_ready showed, in order
    hs_end,        \* how wait_for_data_ready ended
    status_word,   \* registers[14 * 2] of the measurement block read at line 750
    sps_version,   \* {} is None, {v} an SPSVersion
    warnings,      \* actuators listed in the discrepancy warning
    reported,      \* pump states printed under "PUMPEN"
    db_open,       \* the pymysql connection is open
    raised,        \* an exception reached run_sync's except clause
    ended,         \* how the invocation ended
    exit_code,     \* process exit code (meaningful when pc = "exit")
    \* ---- observation of one invocation ----
    wlog,          \* write calls issued to the register bank, in order
    settled,       \* this invocation read the setpoints and every write it issued succeeded
    prev_settled,  \* `settled` of the invocation before this one
    inserted,      \* records this invocation committed to the store
    failed,        \* optional reads of this invocation that returned their default
    do5_on,        \* the last coil write that succeeded in this invocation set bit 5
    \* ---- SpecCodec ----
    fn,            \* the helper applied last
    arg,           \* its input
    res,           \* its result
    bank,          \* the two registers at one DINT address
    \* ---- SpecScripts: the other scripts ----
    h2,            \* heizung2.py run_sync: position, locals, open connections
    r290,          \* r290mb.py module body: position, data, open connections
    \* ---- SpecSchema: the store's schema ----
    store,         \* the store: version rows and column groups of table heizung
    es,            \* heizung2.py ensure_schema: position and locals of one run
    sent,          \* the last record sent to the store and the version it met
    \* ---- SpecMqtt: the side-channel read ----
    mq             \* MQTTTemperature: fields, position of read(), clock

cycleVars == <<sp, qb0, cfg, pc, scope, mqtt_temp, client_open, ovr_read_ok, current,
               test_coils, reason, pump_runtime, output_byte, coil, di8_data,
               hs_reads, hs_end, status_word, sps_version, warnings, reported, db_open,
               raised, ended, exit_code, wlog, inserted, settled, prev_settled, failed,
               do5_on>>
codecVars == <<fn, arg, res, bank>>
scriptVars == <<h2, r290>>
schemaVars == <<store, es, sent>>
vars == <<cycleVars, codecVars, scriptVars, schemaVars, mq>>

----------------------------------------------------------------------------
(* Bounds *)

\* the three actuators, in register order (ADDR_WW_PUMPE, ADDR_HK_PUMPE, ADDR_BRUNNEN)
Act == {"ww", "hk", "br"}

\* override values a deployment may configure: ForceOff, Auto, ForceOn
ConfigDefault == [a \in Act |-> IF a = "br" THEN -1 ELSE 0]
Configs == {ConfigDefault,
            [a \in Act |-> IF a = "ww" THEN 1 ELSE IF a = "hk" THEN -1 ELSE 0]}

\* setpoints the controller may hold when an invocation starts
InitialSetpoints == {[a \in Act |-> 0],
                     [a \in Act |-> IF a = "br" THEN -1 ELSE 0],
                     [a \in Act |-> IF a = "ww" THEN 1 ELSE IF a = "hk" THEN -1 ELSE 0]}

\* bits 0..4 of %QB0 as the controller may drive them
OutputPatterns == {2, 12}

\* status words the measurement block may show (bit 0x20 = data ready)
StatusWords == {1, 6, 33, 38}

\* outcomes of one transport call: a result, a result with isError(), an exception
Outcomes == {"ok", "err", "exc"}

\* the sections of run_sync
Sections == {"override", "do5", "optional", "core"}

----------------------------------------------------------------------------
(* Numeric codec *)

\* bit test: word & mask # 0 for a one-bit mask
Bit(word, mask) == (word \div mask) % 2 = 1

\* struct.pack('>i', value) then struct.unpack('>HH', payload): (high, low)
PackDint(value) == <<(value \div 65536) % 65536, value % 65536>>

\* a DINT as the controller stores it: low word first
PlcEncode(value) == <<value % 65536, (value \div 65536) % 65536>>

\* ModbusHelper.get_dint: (high << 16) | low, minus 2^32 when >= 2^31
get_dint(registers, index) ==
    LET low == registers[index * 2 + 1]
        high == registers[index * 2 + 2]
    IN  IF high >= 32768 THEN (high - 65536) * 65536 + low
                         ELSE high * 65536 + low

\* the registers write_dint hands to write_registers, stored from `address` on
write_dint(value) == PackDint(value)

\* the six registers read from ADDR_WW_PUMPE
SetpointBlock(s) == s["ww"] \o s["hk"] \o s["br"]
DintIndex(a) == CASE a = "ww" -> 0 [] a = "hk" -> 1 [] a = "br" -> 2


----------------------------------------------------------------------------
(* Decoders used by the poll cycle *)

\* program constant: wait_for_data_ready(max_retries = 10)
max_retries == 10

\* variant: the loop bound taken inclusively
RetriesLeft_inclusive(n) == n <= max_retries

\* `for retry in range(max_retries)`: another read follows after n reads
RetriesLeft(n) == n < max_retries

\* status_word & 0x20
DataReady(word) == Bit(word, 32)

\* variant: the override is written whatever was read
NeedsWrite_unconditional(cur, desired) == TRUE

\* the override comparison of run_sync: `if current_x != CONFIG.X_OVERRIDE`
NeedsWrite(cur, desired) == cur # desired

\* heizung3 SPSReader.read_physical_outputs: (ww, hk, br) from the output byte
read_physical_outputs(byte) ==
    [a \in Act |-> CASE a = "ww" -> Bit(byte, 2)
                     [] a = "hk" -> Bit(byte, 4)
                     [] a = "br" -> Bit(byte, 8)]

\* decode_status_word: ww_pumpe_modbus, hz_pumpe_modbus, brunnen_modbus
ModbusStatus(word) ==
    [a \in Act |-> CASE a = "ww" -> Bit(word, 1)
                     [] a = "hk" -> Bit(word, 2)
                     [] a = "br" -> Bit(word, 4)]

\* run_sync, "WARNUNG bei Diskrepanz": the actuators a warning line is printed for
Discrepancies(coils, word) == {a \in Act : coils[a] # ModbusStatus(word)[a]}

\* variant: the result of wait_for_data_ready is not looked at
AfterHandshake_unchecked(ready) == "measure"

\* where run_sync goes after wait_for_data_ready returned `ready`
AfterHandshake(ready) == IF ready THEN "measure" ELSE "finally"

\* the coil array of test_digital_output_write: bits 0..4 as read, bit 5 on
TestCoils(current_byte) == (current_byte % 32) + 32

\* the coil array of the reset in run_sync: bits 0..4 as read, bit 5 off
ResetCoils(current_byte) == current_byte % 32

\* write_coils(512, coils) with six coils: bits 0..5 replaced, bits 6..7 kept
WriteCoils(byte, coils) == (byte \div 64) * 64 + coils

\* one entry of the write log
W(kind, act, value) == [kind |-> kind, act |-> act, value |-> value]

\* samples a successful optional read may deliver
ReasonDints == {259}
RuntimeSamples == {150}
Di8Samples == {5}
VersionSamples == {64}
MqttSamples == {21}

----------------------------------------------------------------------------
(* Initial states *)

NoLocals ==
    /\ mqtt_temp = {}
    /\ client_open = FALSE
    /\ ovr_read_ok = FALSE
    /\ current = [a \in Act |-> 0]
    /\ test_coils = 0
    /\ reason = [a \in Act |-> 0]
    /\ pump_runtime = {}
    /\ output_byte = {}
    /\ coil = [a \in Act |-> FALSE]
    /\ di8_data = {}
    /\ hs_reads = <<>>
    /\ hs_end = "none"
    /\ status_word = 0
    /\ sps_version = {}
    /\ warnings = {}
    /\ reported = [a \in Act |-> FALSE]
    /\ db_open = FALSE
    /\ raised = FALSE
    /\ ended = "running"
    /\ exit_code = 0
    /\ wlog = <<>>
    /\ inserted = <<>>
    /\ settled = FALSE
    /\ failed = {}
    /\ do5_on = FALSE

\* the locals of a fresh invocation
ResetLocals ==
    /\ mqtt_temp' = {}
    /\ client_open' = FALSE
    /\ ovr_read_ok' = FALSE
    /\ current' = [a \in Act |-> 0]
    /\ test_coils' = 0
    /\ reason' = [a \in Act |-> 0]
    /\ pump_runtime' = {}
    /\ output_byte' = {}
    /\ coil' = [a \in Act |-> FALSE]
    /\ di8_data' = {}
    /\ hs_reads' = <<>>
    /\ hs_end' = "none"
    /\ status_word' = 0
    /\ sps_version' = {}
    /\ warnings' = {}
    /\ reported' = [a \in Act |-> FALSE]
    /\ db_open' = FALSE
    /\ raised' = FALSE
    /\ ended' = "running"
    /\ exit_code' = 0
    /\ wlog' = <<>>
    /\ inserted' = <<>>
    /\ settled' = FALSE
    /\ failed' = {}
    /\ do5_on' = FALSE

CodecIdle ==
    /\ fn = "none"
    /\ arg = 0
    /\ res = 0
    /\ bank = <<0, 0>>

\* heizung2.py before run_sync is entered; `off` when the script is not the one run
H2Start ==
    [pc |-> "mqtt", mqtt_val |-> {}, client_open |-> FALSE, db_conn |-> FALSE,
     failed |-> {}, core |-> "none", inserted |-> 0, exit_code |-> 0]
H2Off == [H2Start EXCEPT !.pc = "off"]

\* r290mb.py before its module body runs; `off` when the script is not the one run
R290Start ==
    [pc |-> "connect", data |-> {}, tank_temp |-> 0, open |-> {}, stored |-> 0,
     exit_code |-> 0]
R290Off == [R290Start EXCEPT !.pc = "off"]

\* SCHEMA_VERSION of heizung2.py
SCHEMA_VERSION == 7

\* the versions of the column-adding steps of ensure_schema, in source order
Migrations == <<4, 5, 6, 7>>

\* ensure_schema before its first statement
EsStart ==
    [pc |-> "begin", current_version |-> 0, step |-> 1, applied |-> <<>>,
     failed |-> {}, inserted |-> <<>>]
EsOff == [EsStart EXCEPT !.pc = "off"]

NothingSent == [by |-> "none", fields |-> {}, version |-> 0]

\* a store no script of this behaviour talks to
StoreOff == [table |-> FALSE, rows |-> <<>>, heizung |-> FALSE, cols |-> {}]

SchemaOff ==
    /\ store = StoreOff
    /\ es = EsOff
    /\ sent = NothingSent

\* MQTTTemperature after __init__: value None, received False
MqStart ==
    [pc |-> "reset", value |-> {}, received |-> FALSE, elapsed |-> 0,
     result |-> {}, got_valid |-> FALSE, at_exit |-> FALSE]
MqOff == [MqStart EXCEPT !.pc = "off"]

ScriptsOff ==
    /\ h2 = H2Off
    /\ r290 = R290Off
    /\ SchemaOff
    /\ mq = MqOff

Init ==
    /\ cfg \in Configs
    /\ \E s \in InitialSetpoints : sp = [a \in Act |-> PlcEncode(s[a])]
    /\ qb0 \in OutputPatterns
    /\ pc = "mqtt"
    /\ scope \in Sections
    /\ prev_settled = FALSE
    /\ NoLocals
    /\ CodecIdle
    /\ ScriptsOff


----------------------------------------------------------------------------
(* heizung3.py run_sync, one action per transport call *)

ovrLoc == <<ovr_read_ok, current>>
optLoc == <<reason, pump_runtime, output_byte, coil, di8_data>>
hsLoc == <<hs_reads, hs_end>>
decLoc == <<status_word, sps_version, warnings, reported>>
cfgLoc == <<cfg, scope, mqtt_temp, prev_settled, failed, do5_on>>

\* the outcomes a transport call of section `s` may have in this invocation
Calls(s) == IF scope = s THEN Outcomes ELSE {"ok"}
Oks(s) == IF scope = s THEN BOOLEAN ELSE {TRUE}

\* an exception inside the try block: except clause, then finally
Raise ==
    /\ raised' = TRUE
    /\ ended' = "exception"
    /\ pc' = "finally"

\* mqtt_temp = mqtt_reader.read()
MqttRead ==
    /\ pc = "mqtt"
    /\ \E o \in Calls("optional") :
         IF o = "ok"
         THEN mqtt_temp' \in {{v} : v \in MqttSamples}
         ELSE mqtt_temp' = {}
    /\ pc' = "connect"
    /\ UNCHANGED <<sp, qb0, cfg, scope, prev_settled, failed, do5_on, client_open, ovrLoc, test_coils,
                   optLoc, hsLoc, decLoc, db_open, raised, ended, exit_code, wlog, inserted, settled, codecVars, scriptVars, schemaVars, mq>>

\* client.connect(); on failure sys.exit(1), outside the try block
Connect ==
    /\ pc = "connect"
    /\ \E ok \in Oks("core") :
         IF ok
         THEN /\ client_open' = TRUE
              /\ pc' = "ovr_read"
              /\ UNCHANGED <<ended, exit_code>>
         ELSE /\ ended' = "connect_failed"
              /\ exit_code' = 1
              /\ pc' = "exit"
              /\ UNCHANGED client_open
    /\ UNCHANGED <<sp, qb0, cfgLoc, ovrLoc, test_coils, optLoc, hsLoc, decLoc, db_open,
                   raised, wlog, inserted, settled, codecVars, scriptVars, schemaVars, mq>>

\* result = client.read_holding_registers(CONFIG.ADDR_WW_PUMPE, 6)
ReadOverrides ==
    /\ pc = "ovr_read"
    /\ \E o \in Calls("override") :
         CASE o = "ok" ->
                /\ ovr_read_ok' = TRUE
                /\ current' = [a \in Act |-> get_dint(SetpointBlock(sp), DintIndex(a))]
                /\ settled' = TRUE
                /\ pc' = "ovr_ww"
                /\ UNCHANGED <<raised, ended>>
           [] o = "err" ->
                /\ pc' = "do5_read"
                /\ UNCHANGED <<ovrLoc, settled, raised, ended>>
           [] o = "exc" ->
                /\ Raise
                /\ UNCHANGED <<ovrLoc, settled>>
    /\ UNCHANGED <<sp, qb0, cfgLoc, client_open, test_coils, optLoc, hsLoc, decLoc,
                   db_open, exit_code, wlog, inserted, codecVars, scriptVars, schemaVars, mq>>

\* if current_x != CONFIG.X_OVERRIDE: helper.write_dint(client, ADDR_X, CONFIG.X_OVERRIDE)
\* write_dint catches every exception and its result is ignored
CheckOverride(a, next) ==
    /\ IF NeedsWrite(current[a], cfg[a])
       THEN /\ wlog' = Append(wlog, W("setpoint", a, cfg[a]))
            /\ \E o \in Calls("override") :
                 IF o = "ok"
                 THEN /\ sp' = [sp EXCEPT ![a] = write_dint(cfg[a])]
                      /\ UNCHANGED settled
                 ELSE /\ settled' = FALSE
                      /\ UNCHANGED sp
       ELSE UNCHANGED <<wlog, sp, settled>>
    /\ pc' = next
    /\ UNCHANGED <<qb0, cfgLoc, client_open, ovrLoc, test_coils, optLoc, hsLoc, decLoc,
                   db_open, raised, ended, exit_code, inserted, codecVars, scriptVars, schemaVars, mq>>

OverrideWW == pc = "ovr_ww" /\ CheckOverride("ww", "ovr_hk")
OverrideHK == pc = "ovr_hk" /\ CheckOverride("hk", "ovr_br")
OverrideBR == pc = "ovr_br" /\ CheckOverride("br", "do5_read")


\* test_digital_output_write: result = read_holding_registers(512, 1)
\* every failure inside the method makes it return False
Do5Read ==
    /\ pc = "do5_read"
    /\ \E o \in Calls("do5") :
         IF o = "ok"
         THEN /\ test_coils' = TestCoils(qb0 % 256)
              /\ pc' = "do5_write"
         ELSE /\ pc' = "hour"
              /\ UNCHANGED test_coils
    /\ UNCHANGED <<sp, qb0, cfgLoc, client_open, ovrLoc, optLoc, hsLoc, decLoc, db_open,
                   raised, ended, exit_code, wlog, inserted, settled, codecVars, scriptVars, schemaVars, mq>>

\* test_digital_output_write: write_result = write_coils(512, coils)
Do5Write ==
    /\ pc = "do5_write"
    /\ wlog' = Append(wlog, W("coils", "-", test_coils))
    /\ test_coils' = 0
    /\ \E o \in Calls("do5") :
         IF o = "ok"
         THEN /\ qb0' = WriteCoils(qb0, test_coils)
              /\ do5_on' = TRUE
              /\ pc' = "do5_verify"
         ELSE /\ pc' = "hour"
              /\ UNCHANGED <<qb0, do5_on>>
    /\ UNCHANGED <<sp, cfg, scope, mqtt_temp, prev_settled, failed, client_open, ovrLoc, optLoc, hsLoc, decLoc, db_open,
                   raised, ended, exit_code, inserted, settled, codecVars, scriptVars, schemaVars, mq>>

\* test_digital_output_write: verify = read_holding_registers(512, 1); True only
\* when the read succeeds and shows bit 5
Do5Verify ==
    /\ pc = "do5_verify"
    /\ \E o \in Calls("do5") :
         pc' = IF o = "ok" /\ Bit(qb0 % 256, 32) THEN "do5_reset_read" ELSE "hour"
    /\ UNCHANGED <<sp, qb0, cfgLoc, client_open, ovrLoc, test_coils, optLoc, hsLoc,
                   decLoc, db_open, raised, ended, exit_code, wlog, inserted, settled, codecVars, scriptVars, schemaVars, mq>>

\* run_sync after a True test: sleep, result_qb = read_holding_registers(512, 1)
Do5ResetRead ==
    /\ pc = "do5_reset_read"
    /\ \E o \in Calls("do5") :
         CASE o = "ok" ->
                /\ test_coils' = ResetCoils(qb0 % 256)
                /\ pc' = "do5_reset_write"
                /\ UNCHANGED <<raised, ended>>
           [] o = "err" ->
                /\ pc' = "hour"
                /\ UNCHANGED <<test_coils, raised, ended>>
           [] o = "exc" ->
                /\ Raise
                /\ UNCHANGED test_coils
    /\ UNCHANGED <<sp, qb0, cfgLoc, client_open, ovrLoc, optLoc, hsLoc, decLoc, db_open,
                   exit_code, wlog, inserted, settled, codecVars, scriptVars, schemaVars, mq>>

\* run_sync: client.write_coils(512, coils) with bit 5 False; the result is ignored
Do5ResetWrite ==
    /\ pc = "do5_reset_write"
    /\ wlog' = Append(wlog, W("coils", "-", test_coils))
    /\ test_coils' = 0
    /\ \E o \in Calls("do5") :
         CASE o = "ok" ->
                /\ qb0' = WriteCoils(qb0, test_coils)
                /\ do5_on' = FALSE
                /\ pc' = "hour"
                /\ UNCHANGED <<raised, ended>>
           [] o = "err" ->
                /\ pc' = "hour"
                /\ UNCHANGED <<qb0, do5_on, raised, ended>>
           [] o = "exc" ->
                /\ Raise
                /\ UNCHANGED <<qb0, do5_on>>
    /\ UNCHANGED <<sp, cfg, scope, mqtt_temp, prev_settled, failed, client_open, ovrLoc, optLoc, hsLoc, decLoc, db_open,
                   exit_code, inserted, settled, codecVars, scriptVars, schemaVars, mq>>

\* client.write_register(12288, now.hour); the result is ignored
WriteHour ==
    /\ pc = "hour"
    /\ wlog' = Append(wlog, W("hour", "-", 0))
    /\ \E o \in Calls("core") :
         IF o = "exc"
         THEN Raise
         ELSE /\ pc' = "reasons"
              /\ UNCHANGED <<raised, ended>>
    /\ UNCHANGED <<sp, qb0, cfgLoc, client_open, ovrLoc, test_coils, optLoc, hsLoc,
                   decLoc, db_open, exit_code, inserted, settled, codecVars, scriptVars, schemaVars, mq>>

\* reader.read_reason_bytes(): (0, 0, 0) on any failure
ReadReasonBytes ==
    /\ pc = "reasons"
    /\ \E o \in Calls("optional") :
         /\ failed' = IF o = "ok" THEN failed ELSE failed \cup {"reason"}
         /\ IF o = "ok"
           THEN \E d \in ReasonDints : reason' = [a \in Act |-> d % 256]
           ELSE reason' = [a \in Act |-> 0]
    /\ pc' = "runtime"
    /\ UNCHANGED <<sp, qb0, cfg, scope, mqtt_temp, prev_settled, do5_on, client_open, ovrLoc, test_coils, pump_runtime, output_byte,
                   coil, di8_data, hsLoc, decLoc, db_open, raised, ended, exit_code, wlog,
                   inserted, settled, codecVars, scriptVars, schemaVars, mq>>

\* reader.read_pump_runtime(): None on any failure
ReadPumpRuntime ==
    /\ pc = "runtime"
    /\ \E o \in Calls("optional") :
         /\ failed' = IF o = "ok" THEN failed ELSE failed \cup {"runtime"}
         /\ IF o = "ok"
           THEN pump_runtime' \in {{r} : r \in RuntimeSamples}
           ELSE pump_runtime' = {}
    /\ pc' = "physical"
    /\ UNCHANGED <<sp, qb0, cfg, scope, mqtt_temp, prev_settled, do5_on, client_open, ovrLoc, test_coils, reason, output_byte,
                   coil, di8_data, hsLoc, decLoc, db_open, raised, ended, exit_code, wlog,
                   inserted, settled, codecVars, scriptVars, schemaVars, mq>>

\* reader.read_physical_outputs(): (False, False, False) on any failure
ReadPhysicalOutputs ==
    /\ pc = "physical"
    /\ \E o \in Calls("optional") :
         /\ failed' = IF o = "ok" THEN failed ELSE failed \cup {"physical"}
         /\ IF o = "ok"
           THEN /\ output_byte' = {qb0 % 256}
                /\ coil' = read_physical_outputs(qb0 % 256)
           ELSE /\ output_byte' = {}
                /\ coil' = [a \in Act |-> FALSE]
    /\ pc' = "di8"
    /\ UNCHANGED <<sp, qb0, cfg, scope, mqtt_temp, prev_settled, do5_on, client_open, ovrLoc, test_coils, reason,
                   pump_runtime, di8_data, hsLoc, decLoc, db_open, raised, ended,
                   exit_code, wlog, inserted, settled, codecVars, scriptVars, schemaVars, mq>>

\* reader.read_di8_card(): None on any failure
ReadDi8Card ==
    /\ pc = "di8"
    /\ \E o \in Calls("optional") :
         /\ failed' = IF o = "ok" THEN failed ELSE failed \cup {"di8"}
         /\ IF o = "ok"
           THEN di8_data' \in {{w} : w \in Di8Samples}
           ELSE di8_data' = {}
    /\ pc' = "handshake"
    /\ UNCHANGED <<sp, qb0, cfg, scope, mqtt_temp, prev_settled, do5_on, client_open, ovrLoc, test_coils, reason,
                   pump_runtime, output_byte, coil, hsLoc, decLoc, db_open, raised, ended, exit_code,
                   wlog, inserted, settled, codecVars, scriptVars, schemaVars, mq>>


\* wait_for_data_ready: one pass of the loop, i.e. one read of the block at 12320
WaitForDataReady ==
    /\ pc = "handshake"
    /\ RetriesLeft(Len(hs_reads))
    /\ \E o \in Calls("core") :
         CASE o = "err" ->
                /\ hs_reads' = Append(hs_reads, "err")
                /\ hs_end' = "ReadError"
                /\ ended' = "no_data_ready"
                /\ pc' = AfterHandshake(FALSE)
                /\ UNCHANGED raised
           [] o = "exc" ->
                /\ hs_reads' = Append(hs_reads, "exc")
                /\ hs_end' = "Raised"
                /\ Raise
           [] o = "ok" ->
                \E w \in StatusWords :
                  IF DataReady(w)
                  THEN /\ hs_reads' = Append(hs_reads, "set")
                       /\ hs_end' = "DataReady"
                       /\ pc' = AfterHandshake(TRUE)
                       /\ UNCHANGED <<raised, ended>>
                  ELSE /\ hs_reads' = Append(hs_reads, "clear")
                       /\ IF RetriesLeft(Len(hs_reads) + 1)
                          THEN UNCHANGED <<hs_end, pc, ended>>
                          ELSE /\ hs_end' = "Timeout"
                               /\ ended' = "no_data_ready"
                               /\ pc' = AfterHandshake(FALSE)
                       /\ UNCHANGED raised
    /\ UNCHANGED <<sp, qb0, cfgLoc, client_open, ovrLoc, test_coils, optLoc, decLoc,
                   db_open, exit_code, wlog, inserted, settled, codecVars, scriptVars, schemaVars, mq>>

\* result = client.read_holding_registers(12320, 32): the core measurement block;
\* the locals of the finished wait_for_data_ready call are gone by now
ReadMeasure ==
    /\ pc = "measure"
    /\ hs_reads' = <<>>
    /\ \E o \in Calls("core") :
         CASE o = "ok" ->
                /\ status_word' \in StatusWords
                /\ pc' = "sysdiag"
                /\ UNCHANGED <<raised, ended>>
           [] o = "err" ->
                /\ ended' = "measure_error"
                /\ pc' = "finally"
                /\ UNCHANGED <<status_word, raised>>
           [] o = "exc" ->
                /\ raised' = TRUE
                /\ ended' = "measure_exception"
                /\ pc' = "finally"
                /\ UNCHANGED status_word
    /\ UNCHANGED <<sp, qb0, cfgLoc, client_open, ovrLoc, test_coils, optLoc, hs_end,
                   sps_version, warnings, reported, db_open, exit_code, wlog, inserted,
                   settled, codecVars, scriptVars, schemaVars, mq>>

\* reader.read_system_diagnostics(): None on any failure; only printed
ReadSystemDiagnostics ==
    /\ pc = "sysdiag"
    /\ \E o \in Calls("optional") :
         failed' = IF o = "ok" THEN failed ELSE failed \cup {"sysdiag"}
    /\ pc' = "version"
    /\ UNCHANGED <<sp, qb0, cfg, scope, mqtt_temp, prev_settled, do5_on, client_open, ovrLoc, test_coils, optLoc, hsLoc,
                   decLoc, db_open, raised, ended, exit_code, wlog, inserted, settled, codecVars, scriptVars, schemaVars, mq>>

\* reader.read_sps_version(): None on any failure
ReadSpsVersion ==
    /\ pc = "version"
    /\ \E o \in Calls("optional") :
         /\ failed' = IF o = "ok" THEN failed ELSE failed \cup {"version"}
         /\ IF o = "ok"
           THEN sps_version' \in {{v} : v \in VersionSamples}
           ELSE sps_version' = {}
    /\ pc' = "alarms"
    /\ UNCHANGED <<sp, qb0, cfg, scope, mqtt_temp, prev_settled, do5_on, client_open, ovrLoc, test_coils, optLoc, hsLoc,
                   status_word, warnings, reported, db_open, raised, ended, exit_code,
                   wlog, inserted, settled, codecVars, scriptVars, schemaVars, mq>>

\* reader.read_alarms(): [] on any failure; only printed
ReadAlarms ==
    /\ pc = "alarms"
    /\ \E o \in Calls("optional") :
         failed' = IF o = "ok" THEN failed ELSE failed \cup {"alarms"}
    /\ pc' = "report"
    /\ UNCHANGED <<sp, qb0, cfg, scope, mqtt_temp, prev_settled, do5_on, client_open, ovrLoc, test_coils, optLoc, hsLoc,
                   decLoc, db_open, raised, ended, exit_code, wlog, inserted, settled, codecVars, scriptVars, schemaVars, mq>>

\* decode_status_word: ww_pumpe = coil_ww, hz_pumpe = coil_hk, brunnen = coil_br
PumpState(coils, word) == coils

\* the decode pass and the printed report: pump states and discrepancy warnings
Report ==
    /\ pc = "report"
    /\ reported' = PumpState(coil, status_word)
    /\ warnings' = Discrepancies(PumpState(coil, status_word), status_word)
    /\ pc' = "db_connect"
    /\ UNCHANGED <<sp, qb0, cfgLoc, client_open, ovrLoc, test_coils, optLoc, hsLoc,
                   status_word, sps_version, db_open, raised, ended, exit_code, wlog,
                   inserted, settled, codecVars, scriptVars, schemaVars, mq>>

\* conn = pymysql.connect(**CONFIG.DB_CONFIG)
DbConnect ==
    /\ pc = "db_connect"
    /\ \E ok \in Oks("core") :
         IF ok
         THEN /\ db_open' = TRUE
              /\ pc' = "db_insert"
              /\ UNCHANGED <<raised, ended>>
         ELSE /\ Raise
              /\ UNCHANGED db_open
    /\ UNCHANGED <<sp, qb0, cfgLoc, client_open, ovrLoc, test_coils, optLoc, hsLoc,
                   decLoc, exit_code, wlog, inserted, settled, codecVars, scriptVars, schemaVars, mq>>

\* `x.field if x else default` of the INSERT's argument tuple; a column value
\* is {} for NULL and {v} for v
OrDefault(opt, default) == IF opt = {} THEN {default} ELSE opt

\* variant: the row takes the locals as they are
Record_raw ==
    [status_word |-> status_word, ky9a |-> mqtt_temp, di8_raw |-> di8_data,
     reason |-> reason, runtime |-> pump_runtime, version |-> sps_version]

\* the row of the INSERT INTO heizung: di8_raw and ky9a may be NULL, the
\* runtime columns and the version fall back to 0
Record ==
    [status_word |-> status_word, ky9a |-> mqtt_temp, di8_raw |-> di8_data,
     reason |-> reason, runtime |-> OrDefault(pump_runtime, 0),
     version |-> OrDefault(sps_version, 0)]

\* cur.execute(sql, ...); conn.commit(); finally conn.close()
DbInsert ==
    /\ pc = "db_insert"
    /\ db_open' = FALSE
    /\ \E ok \in Oks("core") :
         IF ok
         THEN /\ inserted' = Append(inserted, Record)
              /\ ended' = "saved"
              /\ pc' = "finally"
              /\ UNCHANGED raised
         ELSE /\ Raise
              /\ UNCHANGED inserted
    /\ UNCHANGED <<sp, qb0, cfgLoc, client_open, ovrLoc, test_coils, optLoc, hsLoc,
                   decLoc, exit_code, wlog, settled, codecVars, scriptVars, schemaVars, mq>>

\* finally: client.close(); run_sync returns and the script ends
Finally ==
    /\ pc = "finally"
    /\ client_open' = FALSE
    /\ exit_code' = 0
    /\ pc' = "exit"
    /\ UNCHANGED <<sp, qb0, cfgLoc, ovrLoc, test_coils, optLoc, hsLoc, decLoc, db_open,
                   raised, ended, wlog, inserted, settled, codecVars, scriptVars, schemaVars, mq>>

\* the next invocation of the script: nothing but the controller's registers
\* survives from one invocation to the next
Restart ==
    /\ pc = "exit"
    /\ pc' = "mqtt"
    /\ scope' \in Sections
    /\ prev_settled' = settled
    /\ ResetLocals
    /\ UNCHANGED <<sp, qb0, cfg, codecVars, scriptVars, schemaVars, mq>>

\* positions of run_sync right before an access to %QB0
OutputAccess == {"do5_read", "do5_write", "do5_verify", "do5_reset_read",
                 "do5_reset_write", "physical"}

\* a scan of the controller's own program drives the outputs; it is taken where the
\* script is about to access %QB0, the only place its effect can be observed
PlcScan ==
    /\ pc \in OutputAccess
    /\ \E p \in OutputPatterns, keep \in BOOLEAN :
         qb0' = p + (IF keep /\ Bit(qb0, 32) THEN 32 ELSE 0)
    /\ qb0' # qb0
    /\ UNCHANGED <<sp, cfgLoc, pc, client_open, ovrLoc, test_coils, optLoc, hsLoc,
                   decLoc, db_open, raised, ended, exit_code, wlog, inserted, settled, codecVars, scriptVars, schemaVars, mq>>

Next ==
    \/ MqttRead
    \/ Connect
    \/ ReadOverrides
    \/ OverrideWW
    \/ OverrideHK
    \/ OverrideBR
    \/ Do5Read
    \/ Do5Write
    \/ Do5Verify
    \/ Do5ResetRead
    \/ Do5ResetWrite
    \/ WriteHour
    \/ ReadReasonBytes
    \/ ReadPumpRuntime
    \/ ReadPhysicalOutputs
    \/ ReadDi8Card
    \/ WaitForDataReady
    \/ ReadMeasure
    \/ ReadSystemDiagnostics
    \/ ReadSpsVersion
    \/ ReadAlarms
    \/ Report
    \/ DbConnect
    \/ DbInsert
    \/ Finally
    \/ Restart
    \/ PlcScan

Spec == Init /\ [][Next]_vars

----------------------------------------------------------------------------
(* SpecCodec: the pure helpers, applied to bounded inputs *)

\* override values around Auto (0) that SpecCodec writes and reads back
MaxOverride == 3

\* 32-bit signed values handed to write_dint
Dints == (-MaxOverride .. MaxOverride) \cup
         {255, 256, 32767, 32768, 65535, 65536, 65537, -65536, -65537,
          2147483647, -2147483647}

\* raw output bytes
Bytes == 0 .. 255

\* heizung2.py read_physical_outputs: 'ww', 'hk', 'br' of the returned dict
heizung2_read_physical_outputs(byte) ==
    [a \in Act |-> CASE a = "ww" -> Bit(byte, 2)
                     [] a = "hk" -> Bit(byte, 4)
                     [] a = "br" -> Bit(byte, 8)]

\* wagostatus.py main: ww_on, hk_on, br_on
wagostatus_pumps(qb0_) ==
    [a \in Act |-> CASE a = "ww" -> ~Bit(qb0_, 2)
                     [] a = "hk" -> ~Bit(qb0_, 4)
                     [] a = "br" -> Bit(qb0_, 8)]

\* wagoglobal.py: ww_on, hk_on, br_on from qb0_phys
wagoglobal_pumps(qb0_phys) ==
    [a \in Act |-> CASE a = "ww" -> ~Bit(qb0_phys, 2)
                     [] a = "hk" -> ~Bit(qb0_phys, 4)
                     [] a = "br" -> Bit(qb0_phys, 8)]

\* debug.py: hk_ist_an = not bool(qb0 & 0x04); the script decodes no other pump
debug_hk_ist_an(qb0_) == [a \in {"hk"} |-> ~Bit(qb0_, 4)]

\* the decoders that derive pump states from the output byte, by script
OutputDecoders == {"heizung3", "heizung2", "wagostatus", "wagoglobal", "debug"}

DecodeOutputs(variant, byte) ==
    CASE variant = "heizung3" -> read_physical_outputs(byte)
      [] variant = "heizung2" -> heizung2_read_physical_outputs(byte)
      [] variant = "wagostatus" -> wagostatus_pumps(byte)
      [] variant = "wagoglobal" -> wagoglobal_pumps(byte)
      [] variant = "debug" -> debug_hk_ist_an(byte)

\* 8-bit reason masks
ReasonMasks == 0 .. 255

\* word & ~mask over the low 8 bits
AndNot(word, mask) ==
    LET f[i \in 0 .. 8] ==
          IF i = 8 THEN 0
          ELSE (IF Bit(word, 2 ^ i) /\ ~Bit(mask, 2 ^ i) THEN 2 ^ i ELSE 0) + f[i + 1]
    IN  f[0]

\* sep.join(parts): the parts with the separator between neighbours
Join(parts, sep) ==
    [i \in 1 .. (2 * Len(parts) - 1) |->
       IF i % 2 = 1 THEN parts[(i + 1) \div 2] ELSE sep]

\* variant: the heating-circuit override bit is not among the known bits
KNOWN_BITS_v1(a) == IF a = "hk" THEN 3 ELSE 1

\* KNOWN_BITS of decode_reason_ww / decode_reason_hk / decode_reason_br
KNOWN_BITS(a) == IF a = "hk" THEN 7 ELSE 1

\* variant: heat demand is listed before frost protection
HkCauseBits_swapped == <<2, 1, 4>>

\* the order in which decode_reason_hk tests the cause bits
HkCauseBits == <<1, 2, 4>>

\* a decoded reason of heizung3.py: f"0x{reason:02X} - " followed by the text
Reason3(hex, text) == [hex |-> {hex}, text |-> text]

\* a decoded reason of heizung2.py: the text alone
Reason2(text) == [hex |-> {}, text |-> text]

\* the causes decode_reason_hk appends, in order, given the name of each bit
HkParts(r, name) ==
    LET Set(b) == Bit(r, b)
        bits == SelectSeq(HkCauseBits, Set)
    IN  [i \in 1 .. Len(bits) |-> name[bits[i]]]

\* heizung3.py decode_reason_ww
decode_reason_ww(r) ==
    IF AndNot(r, KNOWN_BITS("ww")) # 0
    THEN Reason3(r, <<"ACTUATOR-Logik (MIN_ONTIME/RUN_EVERY)">>)
    ELSE IF Bit(r, 1) THEN Reason3(r, <<"dT >= 2.0C -> AN">>)
    ELSE IF r = 0 THEN Reason3(0, <<"dT < 2.0C -> AUS">>)
    ELSE Reason3(r, <<"Unbekannt">>)

\* heizung3.py decode_reason_hk
decode_reason_hk(r) ==
    IF AndNot(r, KNOWN_BITS("hk")) # 0
    THEN Reason3(r, <<"ACTUATOR-Logik (MIN_ONTIME/MIN_OFFTIME/RUN_EVERY)">>)
    ELSE LET reasons_ == HkParts(r, [b \in {1, 2, 4} |->
                          CASE b = 1 -> "Frostschutz(AT<3C)"
                            [] b = 2 -> "Waermebedarf"
                            [] b = 4 -> "Override"])
         IN  IF r = 0
             THEN Reason3(0, <<"AUS (keine Anforderung)">>)
             ELSE Reason3(r, Join(reasons_, ", "))

\* heizung3.py decode_reason_br
decode_reason_br(r) ==
    IF AndNot(r, KNOWN_BITS("br")) # 0
    THEN Reason3(r, <<"ACTUATOR-Logik (MIN_ONTIME/RUN_EVERY)">>)
    ELSE IF Bit(r, 1) THEN Reason3(r, <<"HK aktiv">>)
    ELSE IF r = 0 THEN Reason3(0, <<"HK inaktiv">>)
    ELSE Reason3(r, <<"Unbekannt">>)

\* heizung2.py decode_reason_ww
heizung2_decode_reason_ww(r) ==
    IF AndNot(r, KNOWN_BITS("ww")) # 0 THEN Reason2(<<"ACTUATOR">>)
    ELSE IF Bit(r, 1) THEN Reason2(<<"dT>=2C">>)
    ELSE Reason2(<<"dT<2C">>)

\* heizung2.py decode_reason_hk
heizung2_decode_reason_hk(r) ==
    IF AndNot(r, KNOWN_BITS("hk")) # 0 THEN Reason2(<<"ACTUATOR">>)
    ELSE IF r = 0 THEN Reason2(<<"Aus">>)
    ELSE Reason2(Join(HkParts(r, [b \in {1, 2, 4} |->
                        CASE b = 1 -> "Frost"
                          [] b = 2 -> "Waerme"
                          [] b = 4 -> "Override"]), "+"))

\* heizung2.py decode_reason_br
heizung2_decode_reason_br(r) ==
    IF AndNot(r, KNOWN_BITS("br")) # 0 THEN Reason2(<<"ACTUATOR">>)
    ELSE IF Bit(r, 1) THEN Reason2(<<"HK aktiv">>)
    ELSE Reason2(<<"HK inaktiv">>)

\* the scripts that decode reason bytes
ReasonDecoders == {"heizung3", "heizung2"}

DecodeReason(variant, a, r) ==
    CASE variant = "heizung3" /\ a = "ww" -> decode_reason_ww(r)
      [] variant = "heizung3" /\ a = "hk" -> decode_reason_hk(r)
      [] variant = "heizung3" /\ a = "br" -> decode_reason_br(r)
      [] variant = "heizung2" /\ a = "ww" -> heizung2_decode_reason_ww(r)
      [] variant = "heizung2" /\ a = "hk" -> heizung2_decode_reason_hk(r)
      [] variant = "heizung2" /\ a = "br" -> heizung2_decode_reason_br(r)

\* 16-bit words the helpers are applied to: every thousand with its neighbours
\* (all window edges among them), the sign boundary and the calibration zeros
Words == {w \in 0 .. 65535 : w % 1000 \in {0, 1, 999}} \cup
         {2, 255, 256, 7134, 26402, 40536, 32767, 32768, 65534, 65535}

\* register halves handed to get_dint
HalfWords == {0, 1, 2, 255, 256, 32767, 32768, 32769, 65534, 65535}

\* round(num / den, 0) for den > 0; no input of the calibrations is a tie
RoundDiv(num, den) == (2 * num + den) \div (2 * den)

\* a float rounded to two decimals, in hundredths; {} stands for None
Hundredths(num, den) == {RoundDiv(100 * num, den)}

\* heizung3.py / wagostatus.py: lo <= raw <= hi
InWindow(lo, raw, hi) == lo <= raw /\ raw <= hi

\* heizung3.py calc_pt1000, calc_ntc_solar, calc_boiler: 0.0 outside the window
calc_pt1000(raw) ==
    IF ~InWindow(4000, raw, 25000) THEN {0} ELSE Hundredths(raw - 7134, 25)
calc_ntc_solar(raw) ==
    IF ~InWindow(4000, raw, 40000) THEN {0} ELSE Hundredths(raw - 26402, 60)
calc_boiler(raw) ==
    IF ~InWindow(4000, raw, 45000) THEN {0} ELSE Hundredths(10 * (40536 - raw), 3031)

\* heizung2.py calc_pt1000, calc_boiler, calc_solar: 0.0 outside the window
heizung2_calc_pt1000(r) ==
    IF 4000 < r /\ r < 25000 THEN Hundredths(r - 7134, 25) ELSE {0}
heizung2_calc_boiler(r) ==
    IF 4000 < r /\ r < 45000 THEN Hundredths(10 * (40536 - r), 3031) ELSE {0}
heizung2_calc_solar(r) ==
    IF 4000 < r /\ r < 40000 THEN Hundredths(r - 26402, 60) ELSE {0}

\* wagostatus.py calc_pt1000, calc_boiler, calc_solar: None outside the window
wagostatus_calc_pt1000(raw) ==
    IF ~InWindow(4000, raw, 25000) THEN {} ELSE Hundredths(raw - 7134, 25)
wagostatus_calc_boiler(raw) ==
    IF ~InWindow(4000, raw, 45000) THEN {} ELSE Hundredths(10 * (40536 - raw), 3031)
wagostatus_calc_solar(raw) ==
    IF ~InWindow(4000, raw, 40000) THEN {} ELSE Hundredths(raw - 26402, 60)

\* the scripts that calibrate raw counts, and the three sensor kinds
Calibrators == {"heizung3", "heizung2", "wagostatus"}
Sensors == {"pt1000", "boiler", "solar"}

Calibrate(variant, sensor, raw) ==
    CASE variant = "heizung3" /\ sensor = "pt1000" -> calc_pt1000(raw)
      [] variant = "heizung3" /\ sensor = "boiler" -> calc_boiler(raw)
      [] variant = "heizung3" /\ sensor = "solar" -> calc_ntc_solar(raw)
      [] variant = "heizung2" /\ sensor = "pt1000" -> heizung2_calc_pt1000(raw)
      [] variant = "heizung2" /\ sensor = "boiler" -> heizung2_calc_boiler(raw)
      [] variant = "heizung2" /\ sensor = "solar" -> heizung2_calc_solar(raw)
      [] variant = "wagostatus" /\ sensor = "pt1000" -> wagostatus_calc_pt1000(raw)
      [] variant = "wagostatus" /\ sensor = "boiler" -> wagostatus_calc_boiler(raw)
      [] variant = "wagostatus" /\ sensor = "solar" -> wagostatus_calc_solar(raw)

\* variant: the sign boundary taken one word too high
to_int_late(val) == IF val <= 32768 THEN val ELSE val - 65536

\* wagostatus.py to_int (wagoglobal.py and debug.py define the same function)
to_int(val) == IF val < 32768 THEN val ELSE val - 65536

\* wagostatus.py to_uint (wagoglobal.py and debug.py define the same function)
to_uint(val) == IF val >= 0 THEN val ELSE val + 65536

\* wagoglobal.py to_int, to_uint
wagoglobal_to_int(val) == IF val < 32768 THEN val ELSE val - 65536
wagoglobal_to_uint(val) == IF val >= 0 THEN val ELSE val + 65536

\* r290mb.py to_signed
to_signed(val) == IF val < 32768 THEN val ELSE val - 65536

\* the scripts that convert between signed and unsigned words; r290mb.py has
\* no conversion back to unsigned
WordConverters == {"wagostatus", "wagoglobal", "r290mb"}

ToSigned(variant, w) ==
    CASE variant = "wagostatus" -> to_int(w)
      [] variant = "wagoglobal" -> wagoglobal_to_int(w)
      [] variant = "r290mb" -> to_signed(w)

ToUnsigned(variant, v) ==
    CASE variant = "wagostatus" -> to_uint(v)
      [] variant = "wagoglobal" -> wagoglobal_to_uint(v)

\* variant: the two halves taken in high-then-low order
heizung2_get_dint_swapped(registers, index) ==
    LET high == registers[index * 2 + 1]
        low == registers[index * 2 + 2]
    IN  IF high >= 32768 THEN (high - 65536) * 65536 + low
                         ELSE high * 65536 + low

\* heizung2.py get_dint: (high << 16) | low, minus 2^32 when >= 2^31
heizung2_get_dint(registers, index) ==
    LET low == registers[index * 2 + 1]
        high == registers[index * 2 + 2]
    IN  IF high >= 32768 THEN (high - 65536) * 65536 + low
                         ELSE high * 65536 + low

\* the scripts that compose a DINT from two registers
DintDecoders == {"heizung3", "heizung2"}

ComposeDint(variant, registers) ==
    CASE variant = "heizung3" -> get_dint(registers, 0)
      [] variant = "heizung2" -> heizung2_get_dint(registers, 0)

\* the poll cycle is not running while the helpers are exercised
CycleIdle ==
    /\ cfg = ConfigDefault
    /\ sp = [a \in Act |-> PlcEncode(0)]
    /\ qb0 = 0
    /\ pc = "off"
    /\ scope = "core"
    /\ prev_settled = FALSE
    /\ NoLocals

InitCodec == CycleIdle /\ CodecIdle /\ ScriptsOff

\* helper.write_dint(client, address, value) with a transport that accepts the
\* write: write_registers(address, [high, low]) stores high at address, low at
\* address + 1
WriteDint ==
    /\ fn = "none"
    /\ \E v \in Dints :
         /\ arg' = v
         /\ bank' = write_dint(v)
    /\ fn' = "write_dint"
    /\ res' = 0
    /\ UNCHANGED <<cycleVars, scriptVars, schemaVars, mq>>

\* read_holding_registers(address, 2) right after the write, decoded with
\* get_dint(registers, 0)
ReadBackDint ==
    /\ fn = "write_dint"
    /\ fn' = "get_dint"
    /\ res' = get_dint(bank, 0)
    /\ UNCHANGED <<arg, bank, cycleVars, scriptVars, schemaVars, mq>>

\* one script's pump decode applied to an output byte
DecodeOutputByte ==
    /\ fn = "none"
    /\ \E variant \in OutputDecoders, byte \in Bytes :
         /\ fn' = variant
         /\ arg' = byte
         /\ res' = DecodeOutputs(variant, byte)
    /\ UNCHANGED <<bank, cycleVars, scriptVars, schemaVars, mq>>

\* one script's reason decoder applied to a reason mask
DecodeReasonByte ==
    /\ fn = "none"
    /\ \E variant \in ReasonDecoders, a \in Act, r \in ReasonMasks :
         /\ fn' = "decode_reason"
         /\ arg' = [variant |-> variant, act |-> a, reason |-> r]
         /\ res' = DecodeReason(variant, a, r)
    /\ UNCHANGED <<bank, cycleVars, scriptVars, schemaVars, mq>>

\* one script's calibration applied to a raw count
CalibrateRaw ==
    /\ fn = "none"
    /\ \E variant \in Calibrators, sensor \in Sensors, raw \in Words :
         /\ fn' = "calc"
         /\ arg' = [variant |-> variant, sensor |-> sensor, raw |-> raw]
         /\ res' = Calibrate(variant, sensor, raw)
    /\ UNCHANGED <<bank, cycleVars, scriptVars, schemaVars, mq>>

\* to_int / to_signed applied to an unsigned word, and to_uint to its result
ConvertToSigned ==
    /\ fn = "none"
    /\ \E variant \in WordConverters, w \in Words :
         /\ fn' = "to_int"
         /\ arg' = [variant |-> variant, word |-> w]
         /\ res' = [signed |-> ToSigned(variant, w),
                    back |-> IF variant = "r290mb" THEN {}
                             ELSE {ToUnsigned(variant, ToSigned(variant, w))}]
    /\ UNCHANGED <<bank, cycleVars, scriptVars, schemaVars, mq>>

\* to_uint applied to a signed word, and to_int to its result
ConvertToUnsigned ==
    /\ fn = "none"
    /\ \E variant \in WordConverters \ {"r290mb"}, w \in Words :
         /\ fn' = "to_uint"
         /\ arg' = [variant |-> variant, word |-> w - 32768]
         /\ res' = [unsigned |-> ToUnsigned(variant, w - 32768),
                    back |-> ToSigned(variant, ToUnsigned(variant, w - 32768))]
    /\ UNCHANGED <<bank, cycleVars, scriptVars, schemaVars, mq>>

\* get_dint(registers, 0) applied to two registers (low, high)
ComposeFromRegisters ==
    /\ fn = "none"
    /\ \E variant \in DintDecoders, low \in HalfWords, high \in HalfWords :
         /\ fn' = "compose_dint"
         /\ arg' = [variant |-> variant, low |-> low, high |-> high]
         /\ bank' = <<low, high>>
         /\ res' = ComposeDint(variant, <<low, high>>)
    /\ UNCHANGED <<cycleVars, scriptVars, schemaVars, mq>>

NextCodec ==
    \/ CalibrateRaw
    \/ ConvertToSigned
    \/ ConvertToUnsigned
    \/ ComposeFromRegisters
    \/ WriteDint
    \/ ReadBackDint
    \/ DecodeOutputByte
    \/ DecodeReasonByte

SpecCodec == InitCodec /\ [][NextCodec]_vars

-----------------------------------------------------------------------------
(* SpecScripts: one invocation of one of the three polling scripts.        *)
(* heizung3.py run_sync is the cycle above; heizung2.py run_sync and the   *)
(* module body of r290mb.py follow.  Exactly one script runs per behaviour.*)

\* ---- heizung2.py run_sync ----

\* the optional reads of heizung2.py, in call order
H2OptionalBlocks == <<"reason", "runtime", "physical", "di8">>

H2Pc(i) == IF i <= Len(H2OptionalBlocks) THEN H2OptionalBlocks[i] ELSE "hour"

\* get_mqtt: any failure is swallowed and gives None
H2GetMqtt ==
    /\ h2.pc = "mqtt"
    /\ \E o \in {"ok", "exc"} :
         h2' = [h2 EXCEPT !.pc = "engine_begin",
                          !.mqtt_val = IF o = "ok" THEN MqttSamples ELSE {}]
    /\ UNCHANGED <<cycleVars, codecVars, r290, schemaVars, mq>>

\* create_engine and entry of `with engine.begin() as conn` in ensure_schema;
\* run_sync calls ensure_schema outside its try, so a failure ends the process
H2SchemaBegin ==
    /\ h2.pc = "engine_begin"
    /\ \E o \in {"ok", "exc"} :
         h2' = IF o = "ok"
               THEN [h2 EXCEPT !.pc = "schema", !.db_conn = TRUE]
               ELSE [h2 EXCEPT !.pc = "exit", !.exit_code = 1]
    /\ UNCHANGED <<cycleVars, codecVars, r290, schemaVars, mq>>

\* body of the with block: the connection is given back on either way out
H2EnsureSchema ==
    /\ h2.pc = "schema"
    /\ \E o \in {"ok", "exc"} :
         h2' = IF o = "ok"
               THEN [h2 EXCEPT !.pc = "connect", !.db_conn = FALSE]
               ELSE [h2 EXCEPT !.pc = "exit", !.db_conn = FALSE, !.exit_code = 1]
    /\ UNCHANGED <<cycleVars, codecVars, r290, schemaVars, mq>>

H2Connect ==
    /\ h2.pc = "connect"
    /\ \E o \in {"ok", "err"} :
         h2' = IF o = "ok"
               THEN [h2 EXCEPT !.pc = H2Pc(1), !.client_open = TRUE]
               ELSE [h2 EXCEPT !.pc = "exit", !.exit_code = 1]
    /\ UNCHANGED <<cycleVars, codecVars, r290, schemaVars, mq>>

\* read_reason_bytes, read_pump_runtime, read_physical_outputs, read_di8_card:
\* each catches every failure and returns its default
H2ReadOptional(i) ==
    /\ h2.pc = H2OptionalBlocks[i]
    /\ \E o \in Outcomes :
         h2' = [h2 EXCEPT !.pc = H2Pc(i + 1),
                          !.failed = IF o = "ok" THEN @ ELSE @ \cup {H2OptionalBlocks[i]}]
    /\ UNCHANGED <<cycleVars, codecVars, r290, schemaVars, mq>>

H2WriteHour ==
    /\ h2.pc = "hour"
    /\ \E o \in {"ok", "exc"} :
         h2' = IF o = "ok"
               THEN [h2 EXCEPT !.pc = "measure"]
               ELSE [h2 EXCEPT !.pc = "finally", !.core = "hour_exc"]
    /\ UNCHANGED <<cycleVars, codecVars, r290, schemaVars, mq>>

\* what follows the read of the 32 measurement registers
H2AfterMeasure_unchecked(o) == IF o = "exc" THEN "finally" ELSE "to_sql"

H2AfterMeasure(o) == IF o = "ok" THEN "to_sql" ELSE "finally"

H2ReadMeasure ==
    /\ h2.pc = "measure"
    /\ \E o \in Outcomes :
         h2' = [h2 EXCEPT !.pc = H2AfterMeasure(o), !.core = o]
    /\ UNCHANGED <<cycleVars, codecVars, r290, schemaVars, mq>>

\* df.to_sql appends one row; a failure is caught by run_sync's except
H2ToSql ==
    /\ h2.pc = "to_sql"
    /\ \E o \in {"ok", "exc"} :
         h2' = [h2 EXCEPT !.pc = "finally",
                          !.inserted = IF o = "ok" THEN @ + 1 ELSE @]
    /\ UNCHANGED <<cycleVars, codecVars, r290, schemaVars, mq>>

H2Finally ==
    /\ h2.pc = "finally"
    /\ h2' = [h2 EXCEPT !.pc = "exit", !.client_open = FALSE]
    /\ UNCHANGED <<cycleVars, codecVars, r290, schemaVars, mq>>

NextH2 ==
    \/ H2GetMqtt
    \/ H2SchemaBegin
    \/ H2EnsureSchema
    \/ H2Connect
    \/ \E i \in 1..Len(H2OptionalBlocks) : H2ReadOptional(i)
    \/ H2WriteHour
    \/ H2ReadMeasure
    \/ H2ToSql
    \/ H2Finally

\* ---- r290mb.py module body ----

\* the four register blocks read from the heat pump, in order
R290Blocks == <<"status", "temps", "technik", "modus">>

\* samples of register t[1], the tank temperature in half degrees
TankWords == {0, 90, 65446}

R290NextRead(i) == IF i < Len(R290Blocks) THEN R290Blocks[i + 1] ELSE "close"

R290Connect ==
    /\ r290.pc = "connect"
    /\ \E o \in {"ok", "err"} :
         r290' = IF o = "ok"
                 THEN [r290 EXCEPT !.pc = R290Blocks[1], !.open = {"client"}]
                 ELSE [r290 EXCEPT !.pc = "exit", !.exit_code = 1]
    /\ UNCHANGED <<cycleVars, codecVars, h2, schemaVars, mq>>

\* one read_holding_registers: an error response skips the block, an
\* exception leaves the try and skips the remaining blocks
R290Read(i) ==
    /\ r290.pc = R290Blocks[i]
    /\ \E o \in Outcomes, t1 \in TankWords :
         r290' = CASE o = "ok" ->
                      [r290 EXCEPT !.pc = R290NextRead(i),
                                   !.data = @ \cup {R290Blocks[i]},
                                   !.tank_temp = IF R290Blocks[i] = "temps"
                                                 THEN to_signed(t1) ELSE @]
                   [] o = "err" -> [r290 EXCEPT !.pc = R290NextRead(i)]
                   [] o = "exc" -> [r290 EXCEPT !.pc = "close"]
    /\ UNCHANGED <<cycleVars, codecVars, h2, schemaVars, mq>>

\* finally: client.close()
R290Close ==
    /\ r290.pc = "close"
    /\ r290' = [r290 EXCEPT !.open = @ \ {"client"},
                            !.pc = IF r290.tank_temp > 0 THEN "mqtt" ELSE "db"]
    /\ UNCHANGED <<cycleVars, codecVars, h2, schemaVars, mq>>

\* ways out of a try block that opens, uses and closes a connection, the
\* close being the last statement of the try: "use" fails after the open
TryOutcomes == {"ok", "open", "use"}

\* connections still open after the block, by the way out
OpenAfter(o, c) == IF o = "use" THEN {c} ELSE {}

\* mq.connect, mq.publish, mq.disconnect inside one try / bare except
R290Mqtt ==
    /\ r290.pc = "mqtt"
    /\ \E o \in TryOutcomes :
         r290' = [r290 EXCEPT !.pc = "wago", !.open = @ \cup OpenAfter(o, "mq")]
    /\ UNCHANGED <<cycleVars, codecVars, h2, schemaVars, mq>>

\* wc.connect, wc.write_register, wc.close inside one try / bare except
R290Wago ==
    /\ r290.pc = "wago"
    /\ \E o \in TryOutcomes :
         r290' = [r290 EXCEPT !.pc = "db", !.open = @ \cup OpenAfter(o, "wc")]
    /\ UNCHANGED <<cycleVars, codecVars, h2, schemaVars, mq>>

\* pymysql.connect, cur.execute, conn.commit, conn.close inside one try
R290Db ==
    /\ r290.pc = "db"
    /\ \E o \in TryOutcomes :
         r290' = [r290 EXCEPT !.pc = "exit",
                              !.open = @ \cup OpenAfter(o, "conn"),
                              !.stored = IF o = "ok" THEN @ + 1 ELSE @]
    /\ UNCHANGED <<cycleVars, codecVars, h2, schemaVars, mq>>

NextR290 ==
    \/ R290Connect
    \/ \E i \in 1..Len(R290Blocks) : R290Read(i)
    \/ R290Close
    \/ R290Mqtt
    \/ R290Wago
    \/ R290Db

InitScripts ==
    \/ Init
    \/ /\ CycleIdle /\ CodecIdle /\ h2 = H2Start /\ r290 = R290Off /\ SchemaOff
       /\ mq = MqOff
    \/ /\ CycleIdle /\ CodecIdle /\ h2 = H2Off /\ r290 = R290Start /\ SchemaOff
       /\ mq = MqOff

NextScripts == Next \/ NextH2 \/ NextR290

SpecScripts == InitScripts /\ [][NextScripts]_vars

-----------------------------------------------------------------------------
(* SpecSchema: the store's schema under repeated invocations of            *)
(* heizung2.py, whose run_sync calls ensure_schema before it sends its     *)
(* record, with heizung3.py sending its record to the same store between   *)
(* them.  Column groups are named by the version of the step adding them.  *)

\* SELECT COALESCE(MAX(version), 0) FROM schema_version
MaxVersion(rows) ==
    LET S == {rows[i] : i \in 1 .. Len(rows)}
    IN  IF S = {} THEN 0 ELSE CHOOSE m \in S : \A x \in S : x <= m

MigrationSet == {Migrations[i] : i \in 1 .. Len(Migrations)}

\* variant: no early return
IsCurrent_never(current_version) == FALSE

\* `if current_version >= SCHEMA_VERSION: return`
IsCurrent(current_version) == current_version >= SCHEMA_VERSION

\* the version a column of table heizung is introduced by (0: base table of
\* the first schema); ky9a also stands in the CREATE TABLE of ensure_schema
FieldVersion ==
    [zeitstempel |-> 0, status_word |-> 0, temp_vorlauf |-> 0,
     ky9a |-> 4, di8_raw |-> 5,
     reason_ww |-> 6, reason_hk |-> 6, reason_br |-> 6,
     runtime_ww_h |-> 7, runtime_hk_h |-> 7, runtime_br_h |-> 7,
     cycles_ww |-> 7, cycles_hk |-> 7, cycles_br |-> 7]

\* the column list of the INSERT of heizung3.py: fixed
InsertColumns == DOMAIN FieldVersion

\* the keys of the data dict of heizung2.py: fixed
DataKeys == DOMAIN FieldVersion

\* versions a store can record before the first run
StoredVersions == 0 .. SCHEMA_VERSION

\* a store that recorded v and holds the columns of every step up to v
StoreAt(v) ==
    [table |-> TRUE, rows |-> IF v = 0 THEN <<>> ELSE <<v>>, heizung |-> TRUE,
     cols |-> {m \in MigrationSet : m <= v}]

InitialStores == {StoreAt(v) : v \in StoredVersions} \cup {StoreOff}

InitSchema ==
    /\ CycleIdle
    /\ CodecIdle
    /\ h2 = H2Off
    /\ r290 = R290Off
    /\ store \in InitialStores
    /\ es = EsStart
    /\ sent = NothingSent
    /\ mq = MqOff

\* lines 217-241: look for the version table, create it if missing, read the
\* stored version, return at once when it is current
EsBegin ==
    /\ es.pc = "begin"
    /\ \E o \in {"ok", "exc"} :
         IF o = "exc"
         THEN /\ es' = [es EXCEPT !.pc = "raised"]
              /\ UNCHANGED store
         ELSE LET v == IF store.table THEN MaxVersion(store.rows) ELSE 0
              IN  /\ store' = [store EXCEPT !.table = TRUE]
                  /\ es' = [es EXCEPT !.current_version = v,
                                      !.pc = IF IsCurrent(v) THEN "returned" ELSE "create"]
    /\ UNCHANGED <<cycleVars, codecVars, scriptVars, mq, sent>>

\* CREATE TABLE IF NOT EXISTS heizung: a new table comes with ky9a
EsCreate ==
    /\ es.pc = "create"
    /\ \E o \in {"ok", "exc"} :
         IF o = "exc"
         THEN /\ es' = [es EXCEPT !.pc = "raised"]
              /\ UNCHANGED store
         ELSE /\ store' = [store EXCEPT !.heizung = TRUE,
                                        !.cols = IF store.heizung THEN @ ELSE {4}]
              /\ es' = [es EXCEPT !.pc = "migrate", !.step = 1]
    /\ UNCHANGED <<cycleVars, codecVars, scriptVars, mq, sent>>

\* the column group holding the column named in the step's AFTER clause (0:
\* base table): temp_solar, status_word, di8_raw, reason_br
AfterGroup(m) == CASE m = 6 -> 5 [] m = 7 -> 6 [] OTHER -> 0

\* what an ALTER TABLE ... ADD COLUMN ... AFTER ... can answer: it adds the
\* columns only if none exists yet and the AFTER column does
AlterOutcomes(m) ==
    IF m \in store.cols
    THEN {"duplicate", "error"}
    ELSE IF AfterGroup(m) \in store.cols \cup {0} THEN {"ok", "error"} ELSE {"error"}

\* one `if current_version < m: try: ALTER TABLE ... except: ...` block; every
\* exception is caught, "Duplicate column" silently, any other with a warning
EsMigrate ==
    /\ es.pc = "migrate"
    /\ LET m == Migrations[es.step]
           after == [es EXCEPT !.step = @ + 1,
                               !.pc = IF es.step = Len(Migrations) THEN "record" ELSE @]
       IN  IF es.current_version < m
           THEN \E o \in AlterOutcomes(m) :
                  /\ store' = [store EXCEPT !.cols = IF o = "ok" THEN @ \cup {m} ELSE @]
                  /\ es' = [after EXCEPT !.applied = Append(@, m),
                                         !.failed = IF o = "error" THEN @ \cup {m} ELSE @]
           ELSE /\ es' = after
                /\ UNCHANGED store
    /\ UNCHANGED <<cycleVars, codecVars, scriptVars, mq, sent>>

\* INSERT INTO schema_version (version, ...) VALUES (SCHEMA_VERSION, ...) and
\* the commit at the end of the with block
EsRecord ==
    /\ es.pc = "record"
    /\ \E o \in {"ok", "exc"} :
         IF o = "exc"
         THEN /\ es' = [es EXCEPT !.pc = "raised"]
              /\ UNCHANGED store
         ELSE /\ store' = [store EXCEPT !.rows = Append(@, SCHEMA_VERSION)]
              /\ es' = [es EXCEPT !.pc = "done",
                                  !.inserted = Append(@, SCHEMA_VERSION)]
    /\ UNCHANGED <<cycleVars, codecVars, scriptVars, mq, sent>>

\* df.to_sql of heizung2.py run_sync, after ensure_schema has returned
H2SendRecord ==
    /\ es.pc \in {"done", "returned"}
    /\ sent' = [by |-> "heizung2", fields |-> DataKeys,
                version |-> MaxVersion(store.rows)]
    /\ es' = [es EXCEPT !.pc = "exit"]
    /\ UNCHANGED <<cycleVars, codecVars, scriptVars, mq, store>>

\* cur.execute(INSERT ...) of heizung3.py run_sync, which never reads the
\* version table; taken between two invocations of heizung2.py
H3SendRecord ==
    /\ es.pc = "begin"
    /\ store.heizung
    /\ sent' = [by |-> "heizung3", fields |-> InsertColumns,
                version |-> MaxVersion(store.rows)]
    /\ UNCHANGED <<cycleVars, codecVars, scriptVars, mq, store, es>>

\* the next invocation of heizung2.py
EsRestart ==
    /\ es.pc \in {"exit", "raised"}
    /\ es' = EsStart
    /\ UNCHANGED <<cycleVars, codecVars, scriptVars, mq, store, sent>>

NextSchema ==
    \/ EsBegin
    \/ EsCreate
    \/ EsMigrate
    \/ EsRecord
    \/ H2SendRecord
    \/ H3SendRecord
    \/ EsRestart

SpecSchema == InitSchema /\ [][NextSchema]_vars

-----------------------------------------------------------------------------
(* SpecMqtt: MQTTTemperature.read of heizung3.py (get_mqtt of heizung2.py  *)
(* is the same code over two globals), with the client's network thread    *)
(* calling _on_message between loop_start and loop_stop.  Time is counted  *)
(* in tenths of a second, the length of one time.sleep(0.1).               *)

\* CONFIG.MQTT_TIMEOUT, seconds
MQTT_TIMEOUT == 5

TimeoutTenths == MQTT_TIMEOUT * 10

\* how long one pass of the loop body can take: the sleep, or the sleep and a
\* delay of the same length
SleepTenths == {1, 2}

\* float(msg.payload.decode()) of the payloads a message can carry: {v} for
\* a number, {} for text float() rejects
Payloads == {{v} : v \in MqttSamples} \cup {{}}

\* variant: the deadline itself still waits
KeepWaiting_inclusive(received, elapsed) == ~received /\ elapsed <= TimeoutTenths

\* `while not self.received and (time.time() - start_time) < self.timeout`
KeepWaiting(received, elapsed) == ~received /\ elapsed < TimeoutTenths

InitMqtt ==
    /\ CycleIdle
    /\ CodecIdle
    /\ h2 = H2Off
    /\ r290 = R290Off
    /\ SchemaOff
    /\ mq = MqStart

\* self.value = None; self.received = False
MqReset ==
    /\ mq.pc = "reset"
    /\ mq' = [MqStart EXCEPT !.pc = "connect"]
    /\ UNCHANGED <<cycleVars, codecVars, scriptVars, schemaVars>>

\* mqtt.Client(), connect, subscribe, start_time, loop_start; an exception
\* goes to the except clause, which returns None
MqConnect ==
    /\ mq.pc = "connect"
    /\ \E o \in {"ok", "exc"} :
         mq' = [mq EXCEPT !.pc = IF o = "ok" THEN "check" ELSE "failed"]
    /\ UNCHANGED <<cycleVars, codecVars, scriptVars, schemaVars>>

\* _on_message on the network thread, which runs from loop_start to loop_stop
OnMessage ==
    /\ mq.pc \in {"check", "sleep", "stop"}
    /\ \E payload \in Payloads :
         mq' = IF payload = {}
               THEN [mq EXCEPT !.value = {}]
               ELSE [mq EXCEPT !.value = payload, !.received = TRUE,
                               !.got_valid = TRUE]
    /\ UNCHANGED <<cycleVars, codecVars, scriptVars, schemaVars>>

\* the test of the while loop
MqCheck ==
    /\ mq.pc = "check"
    /\ mq' = [mq EXCEPT !.pc = IF KeepWaiting(mq.received, mq.elapsed)
                                THEN "sleep" ELSE "stop",
                        !.at_exit = mq.received]
    /\ UNCHANGED <<cycleVars, codecVars, scriptVars, schemaVars>>

\* time.sleep(0.1)
MqSleep ==
    /\ mq.pc = "sleep"
    /\ \E d \in SleepTenths :
         mq' = [mq EXCEPT !.elapsed = @ + d, !.pc = "check"]
    /\ UNCHANGED <<cycleVars, codecVars, scriptVars, schemaVars>>

\* client.loop_stop(); client.disconnect(); an exception goes to the except
\* clause, which returns None
MqStop ==
    /\ mq.pc = "stop"
    /\ \E o \in {"ok", "exc"} :
         mq' = [mq EXCEPT !.pc = IF o = "ok" THEN "return" ELSE "failed"]
    /\ UNCHANGED <<cycleVars, codecVars, scriptVars, schemaVars>>

\* return self.value if self.received else None
MqReturn ==
    /\ mq.pc = "return"
    /\ mq' = [mq EXCEPT !.result = IF mq.received THEN mq.value ELSE {},
                        !.pc = "done"]
    /\ UNCHANGED <<cycleVars, codecVars, scriptVars, schemaVars>>

\* the next read() on the same object: value and received are as left
MqAgain ==
    /\ mq.pc \in {"done", "failed"}
    /\ mq' = [mq EXCEPT !.pc = "reset"]
    /\ UNCHANGED <<cycleVars, codecVars, scriptVars, schemaVars>>

NextMqtt ==
    \/ MqReset
    \/ MqConnect
    \/ OnMessage
    \/ MqCheck
    \/ MqSleep
    \/ MqStop
    \/ MqReturn
    \/ MqAgain

SpecMqtt == InitMqtt /\ [][NextMqtt]_vars

----------------------------------------------------------------------------
(* Properties *)

\* the override setpoint writes of this invocation, in order
IsSetpointWrite(e) == e.kind = "setpoint"
OverrideWrites == SelectSeq(wlog, IsSetpointWrite)

\* the values this invocation wrote to the setpoint of actuator a, in order
ValuesWritten(a) ==
    LET ForA(e) == e.kind = "setpoint" /\ e.act = a
        w == SelectSeq(wlog, ForA)
    IN  [i \in 1 .. Len(w) |-> w[i].value]

\* the actuators whose override comparison this invocation has passed
Decided ==
    CASE pc \in {"mqtt", "connect", "ovr_read", "ovr_ww"} -> {}
      [] pc = "ovr_hk" -> {"ww"}
      [] pc = "ovr_br" -> {"ww", "hk"}
      [] OTHER -> Act

\* C1: a value v written with write_dint and read back from the same address
\* with get_dint(registers, 0) comes back as exactly v.
C1_WriteThenRead == fn = "get_dint" => res = arg

\* C2: an invocation that is given no override instruction (the script with its
\* Config as shipped takes none) issues no override setpoint write, whatever
\* setpoints it reads.
C2_NoWriteWithoutInstruction == cfg = ConfigDefault => OverrideWrites = <<>>

\* C3: per actuator, exactly one write of the desired value is issued when the
\* setpoint read succeeded and the desired value differs from the value read,
\* and none when it equals the value read or the read failed; what is written
\* for one actuator does not depend on the other two.
C3_Corrective ==
    \A a \in Act :
      ValuesWritten(a) =
        IF ovr_read_ok /\ a \in Decided /\ current[a] # cfg[a]
        THEN <<cfg[a]>>
        ELSE <<>>

\* C3 witness: past the override section, one actuator was written and another
\* one, whose setpoint already had the desired value, was not.
C3_Witness ==
    /\ pc = "do5_read"
    /\ ovr_read_ok
    /\ \E a, b \in Act :
         /\ current[a] # cfg[a]
         /\ ValuesWritten(a) = <<cfg[a]>>
         /\ current[b] = cfg[b]
         /\ ValuesWritten(b) = <<>>

\* C4: when the invocation before this one read the setpoints and all its
\* override writes succeeded, this invocation, run with the same desired values
\* and nobody else touching the setpoints, issues no override write.
C4_SecondCycleWritesNothing ==
    prev_settled /\ ovr_read_ok => OverrideWrites = <<>>

\* C5: an invocation whose handshake ended in Timeout has issued no write to the
\* register bank and performs no decode.
C5_TimeoutCycleWritesNothing ==
    hs_end = "Timeout" => wlog = <<>> /\ pc \in {"finally", "exit"}

\* C6: an invocation whose handshake ended in Timeout commits no record to the
\* store and never opens the store connection.
C6_TimeoutNoRecord ==
    hs_end = "Timeout" => inserted = <<>> /\ ~db_open /\ pc \in {"finally", "exit"}

\* C6 witness: an invocation that timed out has run to its end.
C6_Witness == hs_end = "Timeout" /\ pc = "exit" /\ ended = "no_data_ready"

\* C7: wait_for_data_ready makes at most max_retries reads; every read before
\* the last one showed the ready bit clear (so no read follows a set bit or a
\* failed read); it ends in DataReady exactly when its last read shows the bit
\* set, ends without DataReady when the last read failed or when the
\* max_retries-th read shows the bit clear, and goes on reading otherwise.
C7_Handshake ==
    LET n == Len(hs_reads)
    IN  /\ n <= max_retries
        /\ \A i \in 1 .. n - 1 : hs_reads[i] = "clear"
        /\ pc = "handshake" => hs_end = "none"
        /\ hs_end \in {"Timeout", "ReadError"} => pc \in {"finally", "exit"}
        /\ hs_end = "none" => pc # "measure"
        /\ n > 0 =>
             /\ hs_end = "DataReady" <=> hs_reads[n] = "set"
             /\ hs_end = "ReadError" <=> hs_reads[n] = "err"
             /\ hs_end = "Raised" <=> hs_reads[n] = "exc"
             /\ hs_end = "Timeout" <=> (n = max_retries /\ hs_reads[n] = "clear")
             /\ hs_end = "none" <=> (n < max_retries /\ hs_reads[n] = "clear")
             /\ hs_end = "none" <=> pc = "handshake"

\* C7 witness: the last permitted read is the one that shows the ready bit.
C7_Witness ==
    /\ hs_end = "DataReady"
    /\ Len(hs_reads) = max_retries
    /\ pc = "measure"

\* C8: the exit code is non-zero after a failed connect, non-zero after a
\* handshake timeout, and 0 after a cycle that saved its record.
C8_ExitCodes ==
    pc = "exit" =>
      /\ ended = "connect_failed" => exit_code # 0
      /\ hs_end = "Timeout" => exit_code # 0
      /\ ended = "saved" => exit_code = 0

\* C9: every decoder variant yields, for every output byte, hot-water pump on
\* exactly when bit 1 is clear, heating-circuit pump on exactly when bit 2 is
\* clear, and well pump on exactly when bit 3 is set.
C9_PolarityTable ==
    fn \in OutputDecoders =>
      LET physicalOn == [a \in Act |-> CASE a = "ww" -> ~Bit(arg, 2)
                                         [] a = "hk" -> ~Bit(arg, 4)
                                         [] a = "br" -> Bit(arg, 8)]
      IN  \A a \in DOMAIN res : res[a] = physicalOn[a]

\* C10: once the report is printed from an output byte that was read, an
\* actuator is listed in the discrepancy warning exactly when its physicalOn
\* (polarity table applied to that byte) differs from its status-word bit, and
\* the pump state reported is physicalOn.
C10_Discrepancy ==
    (pc \in {"db_connect", "db_insert"} \/ ended = "saved") /\ output_byte # {} =>
      LET byte == CHOOSE b \in output_byte : TRUE
          physicalOn == [a \in Act |-> CASE a = "ww" -> ~Bit(byte, 2)
                                         [] a = "hk" -> ~Bit(byte, 4)
                                         [] a = "br" -> Bit(byte, 8)]
          logicalOn == [a \in Act |-> CASE a = "ww" -> Bit(status_word, 1)
                                        [] a = "hk" -> Bit(status_word, 2)
                                        [] a = "br" -> Bit(status_word, 4)]
      IN  \A a \in Act :
            /\ a \in warnings <=> physicalOn[a] # logicalOn[a]
            /\ reported[a] = physicalOn[a]

\* C11: for every actuator and 8-bit reason mask, the decoded reason is the
\* ACTUATOR result exactly when a bit outside the actuator's known set (0x01 for
\* the hot-water pump, 0x07 for the heating-circuit pump, 0x01 for the well
\* pump) is set, whatever the known bits are.
C11_UnknownBitsGiveActuator ==
    fn = "decode_reason" =>
      LET known == CASE arg.act = "ww" -> {1}
                     [] arg.act = "hk" -> {1, 2, 4}
                     [] arg.act = "br" -> {1}
          outside == \E i \in 0 .. 7 : Bit(arg.reason, 2 ^ i) /\ 2 ^ i \notin known
          actuator == res.text \in {<<"ACTUATOR">>,
                                    <<"ACTUATOR-Logik (MIN_ONTIME/RUN_EVERY)">>,
                                    <<"ACTUATOR-Logik (MIN_ONTIME/MIN_OFFTIME/RUN_EVERY)">>}
      IN  outside <=> actuator

\* C11 witness: heating-circuit mask 0x0B (bit 3 with known bits beside it)
\* decoded as the ACTUATOR result.
C11_Witness ==
    /\ fn = "decode_reason"
    /\ arg.act = "hk"
    /\ arg.reason = 11
    /\ res.text = <<"ACTUATOR-Logik (MIN_ONTIME/MIN_OFFTIME/RUN_EVERY)">>

\* C12: for every actuator and every reason mask with bit 0x80 set, the decoded
\* reason lists a manual-override cause next to the named cause of every known
\* low bit that is set.
C12_ManualOverrideAppended ==
    fn = "decode_reason" /\ Bit(arg.reason, 128) =>
      LET named == CASE arg.act = "hk" ->
                          [b \in {1, 2, 4} |->
                             CASE b = 1 -> {"Frostschutz(AT<3C)", "Frost"}
                               [] b = 2 -> {"Waermebedarf", "Waerme"}
                               [] b = 4 -> {"Override"}]
                     [] arg.act = "ww" -> [b \in {1} |-> {"dT >= 2.0C -> AN", "dT>=2C"}]
                     [] arg.act = "br" -> [b \in {1} |-> {"HK aktiv"}]
          listed == {res.text[i] : i \in 1 .. Len(res.text)}
      IN  /\ \A b \in DOMAIN named : Bit(arg.reason, b) => listed \cap named[b] # {}
          /\ \E t \in listed :
               t \notin UNION {named[b] : b \in DOMAIN named} \cup
                         {", ", "+", "ACTUATOR", "ACTUATOR-Logik (MIN_ONTIME/RUN_EVERY)",
                          "ACTUATOR-Logik (MIN_ONTIME/MIN_OFFTIME/RUN_EVERY)"}

\* C13: for every heating-circuit mask in 0x00..0x07 the decoded text is the
\* causes of the set bits in the order frost protection, heat demand, override,
\* joined by the separator, and the 'off' text for mask 0x00.
C13_HkCauseList ==
    fn = "decode_reason" /\ arg.act = "hk" /\ arg.reason \in 0 .. 7 =>
      LET h3 == arg.variant = "heizung3"
          frost == IF Bit(arg.reason, 1)
                   THEN <<IF h3 THEN "Frostschutz(AT<3C)" ELSE "Frost">> ELSE <<>>
          heat == IF Bit(arg.reason, 2)
                  THEN <<IF h3 THEN "Waermebedarf" ELSE "Waerme">> ELSE <<>>
          ovr == IF Bit(arg.reason, 4) THEN <<"Override">> ELSE <<>>
          causes == frost \o heat \o ovr
          sep == IF h3 THEN ", " ELSE "+"
          off == IF h3 THEN "AUS (keine Anforderung)" ELSE "Aus"
      IN  /\ arg.reason = 0 => res.text = <<off>>
          /\ arg.reason # 0 =>
               /\ Len(res.text) = 2 * Len(causes) - 1
               /\ \A i \in 1 .. Len(causes) : res.text[2 * i - 1] = causes[i]
               /\ \A i \in 1 .. Len(causes) - 1 : res.text[2 * i] = sep

\* C13 witness: heating-circuit mask 0x03 decoded as frost protection, then
\* heat demand.
C13_Witness ==
    /\ fn = "decode_reason"
    /\ arg.act = "hk"
    /\ arg.reason = 3
    /\ res.text = <<"Frostschutz(AT<3C)", ", ", "Waermebedarf">>

\* C14: in every decoder variant and for every raw count, a calibration returns
\* a reading when 4000 < raw < upper bound (25000 for PT1000, 45000 for the
\* boiler, 40000 for solar; both bounds exclusive) and the invalid result
\* otherwise, so raw = 4000 and raw = upper bound give the invalid result.
C14_ExclusiveWindows ==
    fn = "calc" =>
      LET hi == CASE arg.sensor = "pt1000" -> 25000
                  [] arg.sensor = "boiler" -> 45000
                  [] arg.sensor = "solar" -> 40000
          inside == 4000 < arg.raw /\ arg.raw < hi
          invalid == IF arg.variant = "wagostatus" THEN {} ELSE {0}
      IN  /\ inside => res # {}
          /\ ~inside => res = invalid

\* C15: no raw count inside a sensor's validity window calibrates to the value
\* the function returns for out-of-window raw counts.
C15_SentinelDistinct ==
    fn = "calc" =>
      LET hi == CASE arg.sensor = "pt1000" -> 25000
                  [] arg.sensor = "boiler" -> 45000
                  [] arg.sensor = "solar" -> 40000
          inside == 4000 < arg.raw /\ arg.raw < hi
          invalid == Calibrate(arg.variant, arg.sensor, 0)
      IN  inside => res # invalid

\* C16: to_int maps w >= 32768 to w - 65536 and leaves smaller w unchanged;
\* to_uint(to_int(w)) = w for every word w, and to_int(to_uint(s)) = s for every
\* s in -32768..32767.
C16_Inverses ==
    /\ fn = "to_int" =>
         /\ res.signed = IF arg.word >= 32768 THEN arg.word - 65536 ELSE arg.word
         /\ res.signed \in -32768 .. 32767
         /\ arg.variant # "r290mb" => res.back = {arg.word}
    /\ fn = "to_uint" =>
         /\ res.unsigned \in 0 .. 65535
         /\ res.back = arg.word

\* C16 witness: the sign boundary 32768 converted to -32768 and back.
C16_Witness ==
    /\ fn = "to_int"
    /\ arg.word = 32768
    /\ res.signed = -32768
    /\ res.back = {32768}

\* C17: for all register halves low, high the result of get_dint is the 32-bit
\* two's-complement integer with low as its low half and high as its high half
\* (negative exactly when high >= 0x8000); (0xFFFF, 0xFFFF) gives -1 and
\* (low = 1, high = 0) gives 1; heizung2.py and heizung3.py agree.
C17_ComposeDint ==
    fn = "compose_dint" =>
      /\ res % 65536 = arg.low
      /\ (res \div 65536) % 65536 = arg.high
      /\ res < 0 <=> arg.high >= 32768
      /\ arg.low = 65535 /\ arg.high = 65535 => res = -1
      /\ arg.low = 1 /\ arg.high = 0 => res = 1
      /\ get_dint(bank, 0) = heizung2_get_dint(bank, 0)

\* C17 witness: heizung2.py composing (0xFFFF, 0xFFFF) to -1.
C17_Witness ==
    /\ fn = "compose_dint"
    /\ arg.variant = "heizung2"
    /\ arg.low = 65535
    /\ arg.high = 65535
    /\ res = -1


\* the optional reads of heizung3.py run_sync
OptionalBlocks == {"reason", "runtime", "physical", "di8", "sysdiag", "version", "alarms"}

\* C18: once the read of the measurement block has failed, by an error
\* response or by an exception, the invocation commits no record and goes
\* straight to its end; this holds for heizung3.py and for heizung2.py.
C18_CoreFailureNoRecord ==
    /\ ended \in {"measure_error", "measure_exception"} =>
         inserted = <<>> /\ ~db_open /\ pc \in {"finally", "exit"}
    /\ h2.core \in {"err", "exc"} =>
         h2.inserted = 0 /\ h2.pc \in {"finally", "exit"}

\* C18 witness: an invocation whose handshake succeeded and whose measurement
\* read returned an error response has run to its end.
C18_Witness ==
    hs_end = "DataReady" /\ ended = "measure_error" /\ pc = "exit" /\ failed = {}

\* C19: an invocation of heizung3.py in which nothing but optional reads (and
\* writes before the handshake that report an error) failed, and whose
\* handshake ended in DataReady, commits exactly one record; in that record
\* the value of every failed optional read is its default (reasons 0, runtime
\* 0, DI word NULL, version 0) and the value of every other read is the one
\* read.
C19_OptionalFailuresStillPersist ==
    (pc = "exit" /\ scope # "core" /\ hs_end = "DataReady") =>
        /\ ended = "saved"
        /\ Len(inserted) = 1
        /\ inserted[1].status_word \in StatusWords
        /\ inserted[1].reason \in
             IF "reason" \in failed
             THEN {[a \in Act |-> 0]}
             ELSE {[a \in Act |-> d % 256] : d \in ReasonDints}
        /\ inserted[1].runtime \in
             IF "runtime" \in failed THEN {{0}} ELSE {{r} : r \in RuntimeSamples}
        /\ inserted[1].di8_raw \in
             IF "di8" \in failed THEN {{}} ELSE {{w} : w \in Di8Samples}
        /\ inserted[1].version \in
             IF "version" \in failed THEN {{0}} ELSE {{v} : v \in VersionSamples}

\* C19 witness: every optional read failed and the record was committed.
C19_Witness ==
    pc = "exit" /\ failed = OptionalBlocks /\ Len(inserted) = 1

\* C20: when an invocation has ended, no register-bank client and no store
\* connection it opened is still open; this is stated for heizung3.py,
\* heizung2.py and r290mb.py.
C20_ConnectionsReleased ==
    /\ pc = "exit" => ~client_open /\ ~db_open
    /\ h2.pc = "exit" => ~h2.client_open /\ ~h2.db_conn
    /\ r290.pc = "exit" => r290.open \cap {"client", "wc", "conn"} = {}


\* C21: every write call an invocation of heizung3.py issues to the register
\* bank is an override setpoint write; it writes no other register and no
\* output coil.
C21_OnlySetpointWrites ==
    \A i \in 1 .. Len(wlog) : IsSetpointWrite(wlog[i])


\* the sequence of the steps of ensure_schema whose version is above v
MigrationsAbove(v) == SelectSeq(Migrations, LAMBDA m : m > v)

\* how often version v stands in a sequence of version rows
Count(rows, v) == Cardinality({i \in 1 .. Len(rows) : rows[i] = v})

\* C22: a run of ensure_schema that has reached its end from stored version v
\* has applied exactly the steps with a version above v, in the order 4, 5,
\* 6, 7, and has inserted, for each step it applied, exactly one version row
\* with that step's version.
C22_MigrationsRecorded ==
    es.pc = "done" =>
        /\ es.applied = MigrationsAbove(es.current_version)
        /\ \A i \in 1 .. Len(es.applied) : Count(es.inserted, es.applied[i]) = 1

\* C23: every field of a record sent to the store is introduced by a version
\* not above the version the store records at that moment.
C23_SchemaGate ==
    sent.by # "none" =>
        \A f \in sent.fields : FieldVersion[f] <= sent.version

\* C29: every column group whose version is not above the recorded version
\* exists in the store, and a run in which a column-adding step failed with an
\* error other than "Duplicate column" inserts no version row.
C29_RecordedVersionHasColumns ==
    /\ \A m \in MigrationSet : m <= MaxVersion(store.rows) => m \in store.cols
    /\ es.failed # {} => es.inserted = <<>>


\* C30: the highest recorded version never decreases from one step to the
\* next, over any sequence of runs of ensure_schema; a run that finds the
\* stored version at SCHEMA_VERSION or above applies no step and inserts no
\* version row; a run that starts below it and reaches its end has inserted
\* exactly one version row and leaves the highest recorded version at
\* SCHEMA_VERSION.
C30_VersionMonotoneIdempotent ==
    /\ [][MaxVersion(store'.rows) >= MaxVersion(store.rows)]_vars
    /\ [](es.pc = "returned" =>
            /\ es.current_version >= SCHEMA_VERSION
            /\ es.applied = <<>>
            /\ es.inserted = <<>>)
    /\ [](es.pc = "done" =>
            /\ es.current_version < SCHEMA_VERSION
            /\ Len(es.inserted) = 1
            /\ MaxVersion(store.rows) = SCHEMA_VERSION)

\* C30 witness: a run that started at version 5 has recorded 7, and the run
\* after it has returned without a step.
C30_Witness ==
    es.pc = "returned" /\ store.rows = <<5, SCHEMA_VERSION>>


\* C24: read() starts a sleep only before the deadline, so its clock never
\* passes the deadline by as much as one sleep; it leaves the loop only when
\* the received flag was set or the deadline was reached; a read during which
\* no valid message was delivered returns None; and a value it returns was
\* delivered during this read, never during an earlier one.
C24_BoundedWait ==
    /\ mq.pc = "sleep" => mq.elapsed < TimeoutTenths
    /\ \E d \in SleepTenths : mq.elapsed < TimeoutTenths + d
    /\ mq.pc \in {"stop", "return"} => mq.at_exit \/ mq.elapsed >= TimeoutTenths
    /\ (mq.pc \in {"done", "failed"} /\ ~mq.got_valid) => mq.result = {}
    /\ mq.result # {} => mq.got_valid

\* C24 witness: a read ran into the deadline with no valid message delivered
\* and returned None.
C24_Witness ==
    /\ mq.pc = "done"
    /\ mq.elapsed >= TimeoutTenths
    /\ ~mq.got_valid
    /\ mq.result = {}

\* C28: a read during which a message with a numeric payload was delivered,
\* and which returned by its return statement, returns a number; it returns
\* None only with its received flag false.
C28_ValidValueSurvives ==
    mq.pc = "done" =>
        /\ mq.got_valid => mq.result # {}
        /\ mq.received => mq.result # {}


\* C25: the status word of every record an invocation of heizung3.py commits
\* has the data-ready bit 0x20 set.
C25_PersistedBlockIsReady ==
    \A i \in 1 .. Len(inserted) : Bit(inserted[i].status_word, 32)


\* C26: a coil write of the DO5 test or of its reset leaves each of the output
\* bits 0..4 as the controller last set it: the write changes at most bit 5.
C26_TestKeepsPumpBits ==
    [][(wlog' # wlog /\ wlog'[Len(wlog')].kind = "coils")
         => qb0' % 32 = qb0 % 32]_vars

\* C27: an invocation in which the DO5 test wrote bit 5 on has, when it ends,
\* written bit 5 off again.
C27_Do5SwitchedOffAgain == pc = "exit" => ~do5_on

====
